---- MODULE Spec2Model ----
(***************************************************************************)
(* Byte-level BPE tokenizer (src/src/main.rs): get_stats, merge, train,    *)
(* build_vocab, encode, decode.                                            *)
(*                                                                         *)
(* A Vec<u32> is a sequence of naturals (1-indexed here, 0-indexed in the  *)
(* source), a HashMap is a function whose DOMAIN is its key set, a pair    *)
(* (u32, u32) is a 2-tuple, a &str / String is the sequence of its Unicode *)
(* scalar values (its bytes are its UTF-8 encoding).                       *)
(***************************************************************************)
EXTENDS Integers, Sequences, FiniteSets, TLC

\* ---------------------------------------------------------------- bounds
MaxLen == 3       \* longest text (in characters) of the pipeline
MaxM == 3         \* largest num_merges
MaxFnLen == 5     \* longest sequence handed to get_stats / merge directly
MaxEncLen == 4    \* longest text encoded against an arbitrary table
MaxTab == 2       \* most entries of an arbitrary merge table
MaxTrainLen == 5  \* longest raw byte sequence handed to train directly

\* 'a', 'b', U+00E9 (2 bytes: C3 A9), U+674E (3 bytes: E6 9D 8E)
Chars == {97, 98, 233, 26446}
EncChars == {97, 98}
TrainBytes == {97, 98, 255}
FnSyms == {1, 2, 3}
FnIdxs == {3, 4}
EncSyms == {97, 98, 256}
EncVals == {97, 256}

SeqsUpTo(S, n) == UNION {[1..k -> S] : k \in 0..n}

\* ------------------------------------------------------------- HashMap
EmptyMap == <<>>

Insert(m, k, v) == [x \in (DOMAIN m) \cup {k} |-> IF x = k THEN v ELSE m[x]]

OrDefaultZero(counts, k) == 0

\* counts.entry(k).or_default(): the stored count, 0 for a new key
OrDefault(counts, k) == IF k \in DOMAIN counts THEN counts[k] ELSE 0

\* ------------------------------------------------------------ get_stats
\* ids.windows(2): the windows start at 1 .. len-1, none when len < 2
Windows2(ids) == [j \in 1..(Len(ids) - 1) |-> <<ids[j], ids[j + 1]>>]

RECURSIVE get_stats_from(_, _, _)
get_stats_from(w, j, counts) ==
    IF j > Len(w) THEN counts
    ELSE get_stats_from(w, j + 1, Insert(counts, w[j], OrDefault(counts, w[j]) + 1))

get_stats(ids) == get_stats_from(Windows2(ids), 1, EmptyMap)

\* ---------------------------------------------------------------- merge
MatchAt(ids, pair, i) == i < Len(ids) /\ ids[i] = pair[1] /\ ids[i + 1] = pair[2]

AdvanceNoSkip(matched) == 1

\* i += 2 after a replacement, i += 1 after a copy
Advance(matched) == IF matched THEN 2 ELSE 1

RECURSIVE merge_from(_, _, _, _, _)
merge_from(ids, pair, idx, i, new_ids) ==
    IF i > Len(ids) THEN new_ids
    ELSE IF MatchAt(ids, pair, i)
         THEN merge_from(ids, pair, idx, i + Advance(TRUE), Append(new_ids, idx))
         ELSE merge_from(ids, pair, idx, i + Advance(FALSE), Append(new_ids, ids[i]))

merge(ids, pair, idx) == merge_from(ids, pair, idx, 1, <<>>)

\* how many times the scan of merge takes the replacing branch
RECURSIVE replacements_from(_, _, _)
replacements_from(ids, pair, i) ==
    IF i > Len(ids) THEN 0
    ELSE IF MatchAt(ids, pair, i)
         THEN 1 + replacements_from(ids, pair, i + Advance(TRUE))
         ELSE replacements_from(ids, pair, i + Advance(FALSE))

replacements(ids, pair) == replacements_from(ids, pair, 1)

\* ---------------------------------------------------------------- train
InRangeInclusive(i, n) == i <= n

\* for i in 0..num_merges
InRange(i, n) == i < n

TrainIdxConst(i) == 256

TrainIdx(i) == 256 + i

\* stats.iter().max_by_key(|(_, v)| v): an entry of maximum count.  The map
\* is a std HashMap with a fresh RandomState, so its iteration order, and
\* with it the entry returned among several of maximum count, is not fixed.
MaxByKey(stats) == {p \in DOMAIN stats : \A q \in DOMAIN stats : stats[q] <= stats[p]}

\* one run of the loop body of train: the states it can leave
TrainBody(ids, i, merges) ==
    LET stats == get_stats(ids)
    IN {[ids |-> merge(ids, pair, TrainIdx(i)),
         merges |-> Insert(merges, pair, TrainIdx(i)),
         pair |-> pair, idx |-> TrainIdx(i), count |-> stats[pair],
         fresh |-> pair \notin DOMAIN merges,
         before |-> ids] : pair \in MaxByKey(stats)}

\* ---------------------------------------------------------- build_vocab
ByteVocab == [idx \in 0..255 |-> <<idx>>]

MinIdxEntries(m) == {p \in DOMAIN m : \A q \in DOMAIN m : m[p] <= m[q]}

RECURSIVE SortedDesc(_)
SortedDesc(m) ==
    IF DOMAIN m = {} THEN <<>>
    ELSE LET p == CHOOSE p \in MinIdxEntries(m) : TRUE
             rest == [q \in (DOMAIN m) \ {p} |-> m[q]]
         IN Append(SortedDesc(rest), <<m[p], p[1], p[2]>>)

\* merges.iter().map(..).collect() then sort_by_key(idx): (idx, p0, p1),
\* ascending idx
RECURSIVE SortedByIdx(_)
SortedByIdx(m) ==
    IF DOMAIN m = {} THEN <<>>
    ELSE LET p == CHOOSE p \in MinIdxEntries(m) : TRUE
             rest == [q \in (DOMAIN m) \ {p} |-> m[q]]
         IN <<<<m[p], p[1], p[2]>>>> \o SortedByIdx(rest)

MergedSwapped(vocab, p0, p1) == vocab[p1] \o vocab[p0]

\* merged.extend(&vocab[&p0]); merged.extend(&vocab[&p1])
Merged(vocab, p0, p1) == vocab[p0] \o vocab[p1]

\* the loop over the sorted entries; vocab[&p] panics on a missing key
RECURSIVE build_vocab_from(_, _, _)
build_vocab_from(sorted, j, vocab) ==
    IF j > Len(sorted) THEN [ok |-> TRUE, vocab |-> vocab]
    ELSE LET idx == sorted[j][1]
             p0 == sorted[j][2]
             p1 == sorted[j][3]
         IN IF p0 \notin DOMAIN vocab \/ p1 \notin DOMAIN vocab
            THEN [ok |-> FALSE, vocab |-> vocab]
            ELSE build_vocab_from(sorted, j + 1, Insert(vocab, idx, Merged(vocab, p0, p1)))

build_vocab(merges) == build_vocab_from(SortedByIdx(merges), 1, ByteVocab)

\* --------------------------------------------------------------- encode
\* str::as_bytes: the UTF-8 encoding of the scalar values
Utf8Encode(c) ==
    IF c < 128 THEN <<c>>
    ELSE IF c < 2048 THEN <<192 + (c \div 64), 128 + (c % 64)>>
    ELSE IF c < 65536
         THEN <<224 + (c \div 4096), 128 + ((c \div 64) % 64), 128 + (c % 64)>>
         ELSE <<240 + (c \div 262144), 128 + ((c \div 4096) % 64),
                128 + ((c \div 64) % 64), 128 + (c % 64)>>

RECURSIVE as_bytes(_)
as_bytes(text) ==
    IF text = <<>> THEN <<>> ELSE Utf8Encode(Head(text)) \o as_bytes(Tail(text))

EncodeLoopGuardLate(ids) == Len(ids) >= 3

\* while ids.len() >= 2
EncodeLoopGuard(ids) == Len(ids) >= 2

EncodePairsSwapped(ids) == [j \in 1..(Len(ids) - 1) |-> <<ids[j + 1], ids[j]>>]

\* ids.windows(2).map(|p| (p[0], p[1])).collect()
EncodePairs(ids) == [j \in 1..(Len(ids) - 1) |-> <<ids[j], ids[j + 1]>>]

MaxByKeyFirst(cand, merges) ==
    LET best == CHOOSE j \in 1..Len(cand) :
                  /\ \A k \in 1..Len(cand) : merges[cand[k]] <= merges[cand[j]]
                  /\ \A k \in 1..(j - 1) : merges[cand[k]] < merges[cand[j]]
    IN cand[best]

\* .min_by_key(|k| merges.get(k)): the first element of least id
MinByKey(cand, merges) ==
    LET best == CHOOSE j \in 1..Len(cand) :
                  /\ \A k \in 1..Len(cand) : merges[cand[j]] <= merges[cand[k]]
                  /\ \A k \in 1..(j - 1) : merges[cand[j]] < merges[cand[k]]
    IN cand[best]

\* pairs.iter().filter(|k| merges.contains_key(k))
EncodeCandidates(ids, merges) ==
    LET InTable(p) == p \in DOMAIN merges
    IN SelectSeq(EncodePairs(ids), InTable)

\* --------------------------------------------------------------- decode
RECURSIVE Flatten(_, _)
Flatten(vocab, ids) ==
    IF ids = <<>> THEN <<>> ELSE vocab[Head(ids)] \o Flatten(vocab, Tail(ids))

Replacement == 65533

Utf8CharWidth(b) ==
    IF b \in 194..223 THEN 2
    ELSE IF b \in 224..239 THEN 3
    ELSE IF b \in 240..244 THEN 4
    ELSE 0

SafeGet(b, j) == IF j <= Len(b) THEN b[j] ELSE 0

IsCont(x) == x \in 128..191

Second3(first, second) ==
    \/ first = 224 /\ second \in 160..191
    \/ first \in 225..236 /\ second \in 128..191
    \/ first = 237 /\ second \in 128..159
    \/ first \in 238..239 /\ second \in 128..191

Second4(first, second) ==
    \/ first = 240 /\ second \in 144..191
    \/ first \in 241..243 /\ second \in 128..191
    \/ first = 244 /\ second \in 128..143

\* String::from_utf8_lossy: well-formed sequences decode to their scalar
\* value, each maximal ill-formed span becomes U+FFFD
RECURSIVE from_utf8_lossy(_, _, _)
from_utf8_lossy(b, i, out) ==
    IF i > Len(b) THEN out
    ELSE LET c == b[i]
             w == Utf8CharWidth(c)
             c1 == SafeGet(b, i + 1)
             c2 == SafeGet(b, i + 2)
             c3 == SafeGet(b, i + 3)
             bad(n) == from_utf8_lossy(b, i + n, Append(out, Replacement))
         IN IF c < 128 THEN from_utf8_lossy(b, i + 1, Append(out, c))
            ELSE IF w = 2
                 THEN IF ~IsCont(c1) THEN bad(1)
                      ELSE from_utf8_lossy(b, i + 2,
                               Append(out, (c - 192) * 64 + (c1 - 128)))
            ELSE IF w = 3
                 THEN IF ~Second3(c, c1) THEN bad(1)
                      ELSE IF ~IsCont(c2) THEN bad(2)
                      ELSE from_utf8_lossy(b, i + 3,
                               Append(out, (c - 224) * 4096 + (c1 - 128) * 64 + (c2 - 128)))
            ELSE IF w = 4
                 THEN IF ~Second4(c, c1) THEN bad(1)
                      ELSE IF ~IsCont(c2) THEN bad(2)
                      ELSE IF ~IsCont(c3) THEN bad(3)
                      ELSE from_utf8_lossy(b, i + 4,
                               Append(out, (c - 240) * 262144 + (c1 - 128) * 4096
                                           + (c2 - 128) * 64 + (c3 - 128)))
            ELSE bad(1)

decode(vocab, ids) == from_utf8_lossy(Flatten(vocab, ids), 1, <<>>)

\* ================================================================ state
VARIABLES
    text,        \* the text trained on and encoded (scalar values)
    num_merges,  \* train's num_merges
    pc,          \* where the caller stands: train, vocab, encode, ...
    i,           \* train: loop counter
    ids,         \* train: current sequence
    merges,      \* the merge table
    trainLog,    \* history: one record per executed loop body of train
    vocab,       \* the vocabulary built from merges
    vocabOk,     \* build_vocab returned (no lookup of a missing id)
    enc_ids,     \* encode: current sequence
    encLog,      \* history: one record per merge pass of encode
    decoded,     \* the decoded String
    pc2, i2, ids2, merges2,               \* a second run of train
    fIds, fPair, fIdx, fStats, fOut, fpc  \* direct calls of get_stats, merge

pipeVars == <<text, num_merges, pc, i, ids, merges, trainLog, vocab, vocabOk,
              enc_ids, encLog, decoded>>
run2Vars == <<pc2, i2, ids2, merges2>>
fnVars == <<fIds, fPair, fIdx, fStats, fOut, fpc>>
vars == <<pipeVars, run2Vars, fnVars>>

Texts == SeqsUpTo(Chars, MaxLen)

\* merge tables of at most MaxTab entries over a few symbols
Tables ==
    LET Keys == EncSyms \X EncSyms
    IN UNION {[D -> EncVals] : D \in {K \in SUBSET Keys : Cardinality(K) <= MaxTab}}

Run2Idle == pc2 = "idle" /\ i2 = 0 /\ ids2 = <<>> /\ merges2 = EmptyMap

FnIdle ==
    /\ fIds = <<>> /\ fPair = <<0, 0>> /\ fIdx = 0
    /\ fStats = EmptyMap /\ fOut = <<>> /\ fpc = "idle"

PipeRest ==
    /\ trainLog = <<>> /\ vocab = EmptyMap /\ vocabOk = FALSE
    /\ enc_ids = <<>> /\ encLog = <<>> /\ decoded = <<>>

\* tests::test_encode_decode: train on the bytes of text, build the
\* vocabulary, encode text, decode
Init ==
    /\ text \in Texts
    /\ num_merges \in 0..MaxM
    /\ pc = "train" /\ i = 0 /\ ids = as_bytes(text) /\ merges = EmptyMap
    /\ PipeRest /\ Run2Idle /\ FnIdle

\* -------------------------------------------------------------- train
TrainMerge ==
    /\ pc = "train" /\ InRange(i, num_merges)
    /\ \E r \in TrainBody(ids, i, merges) :
         /\ ids' = r.ids
         /\ merges' = r.merges
         /\ trainLog' = Append(trainLog, [pair |-> r.pair, idx |-> r.idx,
                                count |-> r.count, fresh |-> r.fresh,
                                before |-> r.before])
    /\ i' = i + 1
    /\ UNCHANGED <<text, num_merges, pc, vocab, vocabOk, enc_ids, encLog, decoded>>
    /\ UNCHANGED <<run2Vars, fnVars>>

\* the max_by_key of an empty map is None: break
TrainBreak ==
    /\ pc = "train" /\ InRange(i, num_merges)
    /\ DOMAIN get_stats(ids) = {}
    /\ pc' = "vocab"
    /\ UNCHANGED <<text, num_merges, i, ids, merges, trainLog, vocab, vocabOk,
                   enc_ids, encLog, decoded>>
    /\ UNCHANGED <<run2Vars, fnVars>>

\* the range 0..num_merges is exhausted
TrainReturn ==
    /\ pc = "train" /\ ~InRange(i, num_merges)
    /\ pc' = "vocab"
    /\ UNCHANGED <<text, num_merges, i, ids, merges, trainLog, vocab, vocabOk,
                   enc_ids, encLog, decoded>>
    /\ UNCHANGED <<run2Vars, fnVars>>

\* -------------------------------------------------------- build_vocab
BuildVocab ==
    /\ pc = "vocab"
    /\ LET r == build_vocab(merges)
       IN /\ vocab' = r.vocab
          /\ vocabOk' = r.ok
          /\ pc' = IF r.ok THEN "encode" ELSE "panic"
    /\ UNCHANGED <<text, num_merges, i, ids, merges, trainLog, enc_ids, encLog, decoded>>
    /\ UNCHANGED <<run2Vars, fnVars>>

\* ------------------------------------------------------------- encode
EncodeInit ==
    /\ pc = "encode"
    /\ enc_ids' = as_bytes(text)
    /\ pc' = "encode_loop"
    /\ UNCHANGED <<text, num_merges, i, ids, merges, trainLog, vocab, vocabOk,
                   encLog, decoded>>
    /\ UNCHANGED <<run2Vars, fnVars>>

EncodeStep ==
    /\ pc = "encode_loop" /\ EncodeLoopGuard(enc_ids)
    /\ LET cand == EncodeCandidates(enc_ids, merges)
       IN /\ cand # <<>>
          /\ LET pair == MinByKey(cand, merges)
                 out == merge(enc_ids, pair, merges[pair])
             IN /\ enc_ids' = out
                /\ encLog' = Append(encLog, [pair |-> pair, idx |-> merges[pair],
                                      before |-> enc_ids, after |-> out,
                                      repl |-> replacements(enc_ids, pair)])
    /\ UNCHANGED <<text, num_merges, pc, i, ids, merges, trainLog, vocab, vocabOk, decoded>>
    /\ UNCHANGED <<run2Vars, fnVars>>

EncodeReturn ==
    /\ pc = "encode_loop"
    /\ ~EncodeLoopGuard(enc_ids) \/ EncodeCandidates(enc_ids, merges) = <<>>
    /\ pc' = "decode"
    /\ UNCHANGED <<text, num_merges, i, ids, merges, trainLog, vocab, vocabOk,
                   enc_ids, encLog, decoded>>
    /\ UNCHANGED <<run2Vars, fnVars>>

\* ------------------------------------------------------------- decode
Decode ==
    /\ pc = "decode"
    /\ IF \A j \in 1..Len(enc_ids) : enc_ids[j] \in DOMAIN vocab
       THEN decoded' = decode(vocab, enc_ids) /\ pc' = "done"
       ELSE decoded' = decoded /\ pc' = "panic"
    /\ UNCHANGED <<text, num_merges, i, ids, merges, trainLog, vocab, vocabOk,
                   enc_ids, encLog>>
    /\ UNCHANGED <<run2Vars, fnVars>>

Next ==
    \/ TrainMerge \/ TrainBreak \/ TrainReturn
    \/ BuildVocab
    \/ EncodeInit \/ EncodeStep \/ EncodeReturn
    \/ Decode

Spec == Init /\ [][Next]_vars

\* ------------------------------------------- encode, any merge table
InitEnc ==
    /\ text \in SeqsUpTo(EncChars, MaxEncLen)
    /\ merges \in Tables
    /\ num_merges = 0 /\ i = 0 /\ ids = <<>>
    /\ pc = "encode"
    /\ PipeRest /\ Run2Idle /\ FnIdle

NextEnc == EncodeInit \/ EncodeStep \/ EncodeReturn

SpecEnc == InitEnc /\ [][NextEnc]_vars

\* ------------------------------------------------- two runs of train
InitDet ==
    /\ text \in Texts
    /\ num_merges \in 0..MaxM
    /\ pc = "train" /\ i = 0 /\ ids = as_bytes(text) /\ merges = EmptyMap
    /\ pc2 = "train" /\ i2 = 0 /\ ids2 = as_bytes(text) /\ merges2 = EmptyMap
    /\ PipeRest /\ FnIdle

\* the second call starts when the first has returned
TrainMerge2 ==
    /\ pc # "train"
    /\ pc2 = "train" /\ InRange(i2, num_merges)
    /\ \E r \in TrainBody(ids2, i2, merges2) :
         /\ ids2' = r.ids
         /\ merges2' = r.merges
    /\ i2' = i2 + 1
    /\ UNCHANGED <<pc2, pipeVars, fnVars>>

TrainBreak2 ==
    /\ pc # "train"
    /\ pc2 = "train" /\ InRange(i2, num_merges)
    /\ DOMAIN get_stats(ids2) = {}
    /\ pc2' = "returned"
    /\ UNCHANGED <<i2, ids2, merges2, pipeVars, fnVars>>

TrainReturn2 ==
    /\ pc # "train"
    /\ pc2 = "train" /\ ~InRange(i2, num_merges)
    /\ pc2' = "returned"
    /\ UNCHANGED <<i2, ids2, merges2, pipeVars, fnVars>>

NextDet ==
    \/ TrainMerge \/ TrainBreak \/ TrainReturn
    \/ TrainMerge2 \/ TrainBreak2 \/ TrainReturn2

SpecDet == InitDet /\ [][NextDet]_vars

\* ------------------------------------- get_stats and merge, any input
InitFn ==
    /\ fIds \in SeqsUpTo(FnSyms, MaxFnLen)
    /\ fPair \in FnSyms \X FnSyms
    /\ fIdx \in FnIdxs
    /\ fStats = EmptyMap /\ fOut = <<>> /\ fpc = "start"
    /\ text = <<>> /\ num_merges = 0 /\ pc = "idle" /\ i = 0 /\ ids = <<>>
    /\ merges = EmptyMap
    /\ PipeRest /\ Run2Idle

CallGetStats ==
    /\ fpc = "start"
    /\ fStats' = get_stats(fIds)
    /\ fpc' = "stats"
    /\ UNCHANGED <<fIds, fPair, fIdx, fOut, pipeVars, run2Vars>>

CallMerge ==
    /\ fpc = "stats"
    /\ fOut' = merge(fIds, fPair, fIdx)
    /\ fpc' = "merged"
    /\ UNCHANGED <<fIds, fPair, fIdx, fStats, pipeVars, run2Vars>>

NextFn == CallGetStats \/ CallMerge

SpecFn == InitFn /\ [][NextFn]_vars

\* ------------------------- main: train on raw bytes, build the vocabulary
InitTrain ==
    /\ ids \in SeqsUpTo(TrainBytes, MaxTrainLen)
    /\ num_merges \in 0..MaxM
    /\ text = <<>> /\ pc = "train" /\ i = 0 /\ merges = EmptyMap
    /\ PipeRest /\ Run2Idle /\ FnIdle

NextTrain == TrainMerge \/ TrainBreak \/ TrainReturn \/ BuildVocab

SpecTrain == InitTrain /\ [][NextTrain]_vars

\* =============================================================== claims
Size(m) == Cardinality(DOMAIN m)

Values(m) == {m[k] : k \in DOMAIN m}

AdjacentPairs(s) == {<<s[j], s[j + 1]>> : j \in 1..(Len(s) - 1)}

\* C1: round trip.  Once the text has been trained on, encoded and decoded,
\* the decoded String is the text, and neither build_vocab nor decode
\* panicked on the way.
RoundTrip ==
    /\ pc # "panic"
    /\ pc = "done" => decoded = text

RoundTripWitness ==
    /\ pc = "done" /\ decoded = text
    /\ \E j \in 1..Len(text) : text[j] >= 128
    /\ Len(enc_ids) < Len(as_bytes(text))
    /\ \E j \in 1..Len(enc_ids) : enc_ids[j] >= 256 /\ enc_ids[j] \in DOMAIN vocab

\* C2: at every point of train the table holds exactly the ids
\* 256 .. 256+k-1, k the number of loop bodies executed so far, k <= M, one
\* pair per id, and no loop body selected a pair that was already a key.
MonotonicIds ==
    LET k == Len(trainLog)
    IN /\ k <= num_merges
       /\ k = i
       /\ Values(merges) = {256 + j : j \in 0..(k - 1)}
       /\ Size(merges) = k
       /\ \A j \in 1..k : trainLog[j].fresh /\ trainLog[j].idx = 256 + j - 1

MonotonicIdsWitness ==
    /\ pc = "vocab" /\ Len(trainLog) >= 3 /\ Size(merges) = Len(trainLog)
    /\ \E j \in 1..Len(trainLog) : trainLog[j].count >= 2

\* C3 as stated: the table has at most M entries and every recorded merge
\* is of a pair that occurred at least twice in the current sequence.
TrainMergesOnlyRepeatedPairs ==
    /\ Size(merges) <= num_merges
    /\ \A j \in 1..Len(trainLog) : trainLog[j].count >= 2

\* C3 amended: the table has at most M entries; every recorded merge is of
\* a pair of maximum count in the current sequence, whatever that count
\* (1 included); train returns fewer than M entries only when the current
\* sequence has no adjacent pair at all (length at most 1).
TrainStopsOnlyWithoutPairs ==
    /\ Size(merges) <= num_merges
    /\ \A j \in 1..Len(trainLog) :
         LET st == get_stats(trainLog[j].before)
         IN /\ trainLog[j].pair \in DOMAIN st
            /\ trainLog[j].count = st[trainLog[j].pair]
            /\ trainLog[j].count >= 1
            /\ \A q \in DOMAIN st : st[q] <= trainLog[j].count
    /\ (pc # "train" /\ Size(merges) < num_merges) => Len(ids) <= 1

TrainStopsOnlyWithoutPairsWitness ==
    /\ pc = "vocab" /\ Size(merges) < num_merges /\ Len(ids) = 1
    /\ \E j \in 1..Len(trainLog) : trainLog[j].count = 1
    /\ \E j \in 1..Len(trainLog) : trainLog[j].count >= 2

\* C4: two runs of train on the same sequence with the same num_merges
\* return the same table.
TrainDeterministic ==
    (pc # "train" /\ pc2 = "returned") => merges = merges2

\* C5: the sequence encode returns has no two adjacent ids that form a key
\* of the merge table.
EncodePostcondition ==
    pc = "decode" => AdjacentPairs(enc_ids) \cap DOMAIN merges = {}

EncodePostconditionWitness ==
    /\ pc = "decode" /\ Len(encLog) >= 1 /\ Len(enc_ids) >= 2
    /\ DOMAIN merges # {}

\* C6: in a table built by train both components of every key are smaller
\* than the id the key maps to; build_vocab returns without looking up a
\* missing id, and the vocabulary has an entry for 0..255 and for every id
\* that occurs in the table as a component or as a value.
VocabComplete ==
    /\ \A p \in DOMAIN merges : p[1] < merges[p] /\ p[2] < merges[p]
    /\ pc # "panic"
    /\ pc = "encode" =>
         /\ vocabOk
         /\ 0..255 \subseteq DOMAIN vocab
         /\ \A p \in DOMAIN merges : {p[1], p[2], merges[p]} \subseteq DOMAIN vocab

VocabCompleteWitness ==
    /\ pc = "encode" /\ vocabOk
    /\ \E p \in DOMAIN merges : p[1] >= 256 /\ p[2] >= 256
    /\ \E p \in DOMAIN merges : p[1] < 256 /\ p[2] >= 256

\* the positions at which the left-to-right scan replaces: the pair matches
\* there and the position before was not itself replaced
RECURSIVE TakenAt(_, _, _)
TakenAt(s, pair, j) ==
    /\ j >= 1 /\ j < Len(s)
    /\ s[j] = pair[1] /\ s[j + 1] = pair[2]
    /\ ~TakenAt(s, pair, j - 1)

LeftToRight(s, pair, idx) ==
    LET Visited(j) == ~TakenAt(s, pair, j - 1)
        starts == SelectSeq([j \in 1..Len(s) |-> j], Visited)
    IN [k \in 1..Len(starts) |->
          IF TakenAt(s, pair, starts[k]) THEN idx ELSE s[starts[k]]]

\* C7: merge replaces the occurrences of the pair that a left-to-right
\* scan visits (non-overlapping, leftmost first) and copies every other
\* visited symbol, the last one included; merge([X,X,X],(X,X),R) = [R,X]
\* and merge([1,2,3,1,2],(1,2),4) = [4,3,4].
MergeLeftToRight ==
    fpc = "merged" =>
      /\ fOut = LeftToRight(fIds, fPair, fIdx)
      /\ (fIds = <<1, 1, 1>> /\ fPair = <<1, 1>> /\ fIdx = 4) => fOut = <<4, 1>>
      /\ (fIds = <<1, 2, 3, 1, 2>> /\ fPair = <<1, 2>> /\ fIdx = 4) => fOut = <<4, 3, 4>>

MergeLeftToRightWitness ==
    /\ fpc = "merged" /\ fIds = <<1, 1, 1>> /\ fPair = <<1, 1>> /\ fIdx = 4
    /\ fOut = <<4, 1>>

\* C8: get_stats maps exactly the adjacent pairs of ids, each to the number
\* of positions at which it occurs (overlapping ones counted), and is empty
\* for length 0 or 1; get_stats([1,2,3,1,2]) = {(1,2):2, (2,3):1, (3,1):1}.
StatsCountPositions ==
    fpc # "start" =>
      /\ DOMAIN fStats = AdjacentPairs(fIds)
      /\ \A p \in DOMAIN fStats :
           fStats[p] = Cardinality({j \in 1..(Len(fIds) - 1) : <<fIds[j], fIds[j + 1]>> = p})
      /\ Len(fIds) <= 1 => fStats = EmptyMap
      /\ fIds = <<1, 2, 3, 1, 2>> =>
           fStats = (<<1, 2>> :> 2) @@ (<<2, 3>> :> 1) @@ (<<3, 1>> :> 1)

StatsCountPositionsWitness ==
    /\ fpc = "stats" /\ fIds = <<1, 1, 1, 2, 1>>
    /\ fStats = (<<1, 1>> :> 2) @@ (<<1, 2>> :> 1) @@ (<<2, 1>> :> 1)

RECURSIVE SumRepl(_)
SumRepl(log) == IF log = <<>> THEN 0 ELSE Head(log).repl + SumRepl(Tail(log))

\* C9: every merge pass of encode replaces at least once and shortens the
\* sequence by the number of replacements, and a text of n bytes sees at
\* most n-1 passes.
EncodeShrinks ==
    LET n == Len(as_bytes(text))
    IN /\ Len(encLog) <= (IF n >= 1 THEN n - 1 ELSE 0)
       /\ \A k \in 1..Len(encLog) :
            /\ encLog[k].repl >= 1
            /\ Len(encLog[k].after) = Len(encLog[k].before) - encLog[k].repl
       /\ pc \in {"encode_loop", "decode"} => Len(enc_ids) = n - SumRepl(encLog)

EncodeShrinksWitness ==
    /\ pc = "decode" /\ Len(text) >= 3
    /\ Len(encLog) = Len(as_bytes(text)) - 1
    /\ Len(enc_ids) = 1

\* C10: the k-th merge pass of encode applies, to the same sequence, the
\* pair of the k-th loop body of train, whose id is 256+k-1, and encode
\* returns the sequence train ended with.
EncoderReproducesTraining ==
    /\ Len(encLog) <= Len(trainLog)
    /\ \A k \in 1..Len(encLog) :
         /\ encLog[k].pair = trainLog[k].pair
         /\ encLog[k].idx = 256 + k - 1
         /\ encLog[k].before = trainLog[k].before
    /\ pc \in {"decode", "done"} => enc_ids = ids /\ Len(encLog) = Len(trainLog)

EncoderReproducesTrainingWitness ==
    /\ pc = "decode" /\ Len(encLog) >= 2 /\ enc_ids = ids
    /\ \E k \in 1..Len(encLog) :
         \E q \in AdjacentPairs(encLog[k].before) :
            q \in DOMAIN merges /\ merges[q] > encLog[k].idx

====
